---- MODULE Spec2Model ----
(***************************************************************************)
(* Model of the xtask command dispatchers:                                 *)
(*   crates/xtask-common/src/commands/check.rs        (check family)       *)
(*   crates/tracel-xtask/src/commands/dependencies.rs (dependencies family)*)
(*                                                                         *)
(* The program is sequential and holds no state of its own; everything it  *)
(* does is visible as a sequence of effects (prompts, installations,       *)
(* external processes, log group markers).  Each handler is therefore      *)
(* modelled as an operator from its arguments and the log so far to the    *)
(* SET of (log, result) pairs it can end with: one element per outcome the *)
(* environment (the user at the prompt, the external tools) can produce.   *)
(* One action runs one handler to completion.                              *)
(***************************************************************************)
EXTENDS Naturals, Sequences, FiniteSets

VARIABLES family,    \* "check" | "dependencies": the command family on the command line
          command,   \* CheckCmdArgs.command / DependenciesCmdArgs.command
          target,    \* CheckCmdArgs.target
          excluded,  \* CheckCmdArgs.exclude
          only,      \* CheckCmdArgs.only
          answer,    \* the `answer: Option<bool>` handle_command is entered with
          crates,    \* get_workspace_members(WorkspaceMemberType::Crate)
          examples,  \* get_workspace_members(WorkspaceMemberType::Example)
          nightly,   \* is_current_toolchain_nightly()
          pc,        \* "start" before the handler runs, "done" after it returned
          log,       \* the effects of the run, in order
          res        \* the anyhow::Result<()> the handler returned

vars == <<family, command, target, excluded, only, answer, crates, examples,
          nightly, pc, log, res>>

(***************************************************************************)
(* Bounds and input universes                                              *)
(***************************************************************************)
\* Largest number of workspace members (crates plus examples).
MaxMembers == 2

\* Member names, in the order the workspace lists them.
MemberNames == <<"a", "b", "c">>

\* Names that may appear in --exclude / --only (a name need not be a member).
Names == {MemberNames[i] : i \in DOMAIN MemberNames}

(***************************************************************************)
(* Enumerations                                                            *)
(***************************************************************************)
\* enum Target, in declaration order (Target::iter()).  check.rs calls the
\* aggregate variant Target::All; mod.rs declares it last, as Workspace.
TargetIter == <<"Crates", "Examples", "All">>

\* enum CheckCommand, in declaration order (CheckCommand::iter()).
CheckCommandIter == <<"Audit", "Format", "Lint", "Typos", "All">>

\* enum DependenciesSubCommand, in declaration order; the enum is generated
\* by the declare_command_args macro from (Deny, Unused, All).
DependenciesSubCommandIter == <<"Deny", "Unused", "All">>

SeqToSet(s) == {s[i] : i \in DOMAIN s}

\* Option<bool>
Answers == {"None", "Some(true)", "Some(false)"}
Some(b) == IF b THEN "Some(true)" ELSE "Some(false)"
\* unwrap as answer.is_some(): any answer given counts as a yes.
IsSome(a) == a # "None"

\* answer.unwrap(); never evaluated on None
unwrap(a) == a = "Some(true)"

\* std::process::Command::status(): the process ran and exited zero, ran and
\* exited non-zero, or could not be launched.
Outcomes == {"ok", "nonzero", "nolaunch"}

\* ensure_cargo_crate_is_installed(..) returns Ok or Err.
InstallOutcomes == {"ok", "fail"}

(***************************************************************************)
(* Effects and results                                                     *)
(***************************************************************************)
\* One entry of the log.  ev is one of
\*   "call"     tool = function entered, member = its command/target, out = its answer
\*   "prompt"   out = "yes" | "no"                       (ask_once)
\*   "members"  member = "Crate" | "Example"             (get_workspace_members)
\*   "install"  tool = crate name, out \in InstallOutcomes
\*   "group"    tool = group label, member = member name (group!)
\*   "endgroup"                                          (endgroup!)
\*   "skip"     member = member name                     (info!("Skip ..."))
\*   "run"      tool = command line, member = -p argument, out \in Outcomes
\*   "error"    tool = message                           (error!)
Ev(ev, tool, member, out) == [ev |-> ev, tool |-> tool, member |-> member, out |-> out]

\* anyhow::Result<()>
Ok == [ok |-> TRUE, msg |-> "", arg |-> ""]
Err(msg, arg) == [ok |-> FALSE, msg |-> msg, arg |-> arg]

\* A finished (sub)computation: the log it leaves and what it returned.
R(l, r) == [log |-> l, res |-> r]

(***************************************************************************)
(* Helpers of the repository whose bodies are outside the modelled files   *)
(***************************************************************************)
\* utils::prompt::ask_once: asks the user; either reply is possible.
ask_once(l) ==
  {[log |-> Append(l, Ev("prompt", "", "", IF b THEN "yes" ELSE "no")), val |-> b] :
     b \in BOOLEAN}

\* utils::cargo::ensure_cargo_crate_is_installed: Ok, or Err when the crate
\* is missing and cannot be installed.
ensure_cargo_crate_is_installed(crate, l) ==
  {R(Append(l, Ev("install", crate, "", o)),
     IF o = "ok" THEN Ok ELSE Err("ensure_cargo_crate_is_installed", crate)) :
     o \in InstallOutcomes}

\* utils::workspace::get_workspace_members: the members of one kind, read
\* from the project metadata.
get_workspace_members(kind) == IF kind = "Crate" THEN crates ELSE examples

\* utils::process::run_process(name, args, .., error_msg): Ok when the
\* process ran and exited zero, Err(error_msg) otherwise.
run_process(cmdline, errorMsg, l) ==
  {R(Append(l, Ev("run", cmdline, "", o)),
     IF o = "ok" THEN Ok ELSE Err(errorMsg, "")) : o \in Outcomes}

(***************************************************************************)
(* check.rs                                                                *)
(***************************************************************************)
\* Command::new(..).args(..).status(): the process is spawned and waited for.
Status(cmdline, member, l) ==
  {[log |-> Append(l, Ev("run", cmdline, member, o)), out |-> o] : o \in Outcomes}

\* Asked without the is_none() test: every function asks again.
AskedAgain(a, l) == {[log |-> p.log, answer |-> Some(p.val)] : p \in ask_once(l)}

\* if answer.is_none() { answer = Some(ask_once(..)); }
Asked(a, l) ==
  IF a = "None"
    THEN {[log |-> p.log, answer |-> Some(p.val)] : p \in ask_once(l)}
    ELSE {[log |-> l, answer |-> a]}

\* AuditTargets with run_format's filter, which keeps the examples.
AuditTargetsWithExamples == SelectSeq(TargetIter, LAMBDA p : p # "All")

\* Target::iter().filter(|p| *p != Target::All && *p != Target::Examples)
AuditTargets == SelectSeq(TargetIter, LAMBDA p : p # "All" /\ p # "Examples")

\* FormatTargets with run_audit's filter, which drops the examples.
FormatTargetsNoExamples == SelectSeq(TargetIter, LAMBDA t : t # "All" /\ t # "Examples")

\* Target::iter().filter(|t| *t != Target::All)   (run_format)
FormatTargets == SelectSeq(TargetIter, LAMBDA t : t # "All")

\* Target::iter().filter(|t| *t != Target::All)   (run_lint)
LintTargets == SelectSeq(TargetIter, LAMBDA t : t # "All")

\* Target::iter().filter(|p| *p != Target::All && *p != Target::Examples)
TyposTargets == SelectSeq(TargetIter, LAMBDA p : p # "All" /\ p # "Examples")

\* CheckCommand::iter().filter(|c| *c != CheckCommand::All)
SubChecks == SelectSeq(CheckCommandIter, LAMBDA c : c # "All")

\* FormatSkip without the --only test.
FormatSkipExcludedOnly(name, excl, onl) == name \in excl

\* the skip condition of run_format's member loop
FormatSkip(name, excl, onl) == name \in excl \/ (onl # {} /\ name \notin onl)

\* the skip condition of run_lint's member loop
LintSkip(name, excl, onl) == name \in excl \/ (onl # {} /\ name \notin onl)

\* run_audit, the body run once the answer is positive
AuditTool(l) ==
  UNION {
    IF ~i.res.ok THEN {i}
    ELSE {IF s.out = "nolaunch" THEN R(s.log, Err("Failed to execute cargo audit", ""))
          ELSE IF s.out = "nonzero" THEN R(s.log, Err("Audit check execution failed", ""))
          ELSE R(Append(s.log, Ev("endgroup", "", "", "")), Ok) :
            s \in Status("cargo audit -q --color always fix", "",
                         Append(i.log, Ev("group", "Audit: Crates and Examples", "", "")))} :
      i \in ensure_cargo_crate_is_installed("cargo-audit", l)}

RECURSIVE run_audit(_, _, _)
RECURSIVE AuditEach(_, _, _)

\* .try_for_each(|p| run_audit(&p, answer))
AuditEach(targets, a, l) ==
  IF targets = <<>> THEN {R(l, Ok)}
  ELSE UNION {IF r.res.ok THEN AuditEach(Tail(targets), a, r.log) ELSE {r} :
                r \in run_audit(Head(targets), a, l)}

\* run_audit
run_audit(t, a0, l0) ==
  LET l == Append(l0, Ev("call", "run_audit", t, a0)) IN
  IF t \in {"Crates", "Examples"}
    THEN UNION {IF unwrap(q.answer) THEN AuditTool(q.log) ELSE {R(q.log, Ok)} :
                  q \in Asked(a0, l)}
    ELSE UNION {AuditEach(AuditTargets, q.answer, q.log) : q \in Asked(a0, l)}

RECURSIVE FormatMembers(_, _, _, _)

\* FormatMembers without the exit status test: a member's non-zero exit does
\* not end the loop.
FormatMembersUnchecked(members, excl, onl, l) ==
  IF members = <<>> THEN {R(l, Ok)}
  ELSE
    LET name == Head(members)
        l1 == Append(l, Ev("group", "Format", name, ""))
    IN IF name \in excl \/ (onl # {} /\ name \notin onl)
         THEN FormatMembers(Tail(members), excl, onl, Append(l1, Ev("skip", "", name, "")))
         ELSE UNION {
           IF s.out = "nolaunch" THEN {R(s.log, Err("Failed to execute cargo fmt", ""))}
           ELSE FormatMembers(Tail(members), excl, onl,
                              Append(s.log, Ev("endgroup", "", "", ""))) :
             s \in Status("cargo fmt", name, l1)}

\* run_format: for member in members { .. }
FormatMembers(members, excl, onl, l) ==
  IF members = <<>> THEN {R(l, Ok)}
  ELSE
    LET name == Head(members)
        l1 == Append(l, Ev("group", "Format", name, ""))
    IN IF FormatSkip(name, excl, onl)
         THEN FormatMembers(Tail(members), excl, onl, Append(l1, Ev("skip", "", name, "")))
         ELSE UNION {
           IF s.out = "nolaunch" THEN {R(s.log, Err("Failed to execute cargo fmt", ""))}
           ELSE IF s.out = "nonzero"
             THEN {R(s.log, Err("Format check execution failed for", name))}
           ELSE FormatMembers(Tail(members), excl, onl,
                              Append(s.log, Ev("endgroup", "", "", ""))) :
             s \in Status("cargo fmt", name, l1)}

RECURSIVE run_format(_, _, _, _, _)
RECURSIVE FormatEach(_, _, _, _, _)

\* .try_for_each(|t| run_format(&t, excluded, only, answer))
FormatEach(targets, excl, onl, a, l) ==
  IF targets = <<>> THEN {R(l, Ok)}
  ELSE UNION {IF r.res.ok THEN FormatEach(Tail(targets), excl, onl, a, r.log) ELSE {r} :
                r \in run_format(Head(targets), excl, onl, a, l)}

\* run_format
run_format(t, excl, onl, a0, l0) ==
  LET l == Append(l0, Ev("call", "run_format", t, a0)) IN
  IF t \in {"Crates", "Examples"}
    THEN LET kind == IF t = "Crates" THEN "Crate" ELSE "Example"
             members == get_workspace_members(kind)
             l1 == Append(l, Ev("members", "", kind, ""))
         IN UNION {IF unwrap(q.answer) THEN FormatMembers(members, excl, onl, q.log)
                   ELSE {R(q.log, Ok)} : q \in Asked(a0, l1)}
    ELSE UNION {IF unwrap(q.answer) THEN FormatEach(FormatTargets, excl, onl, q.answer, q.log)
                ELSE {R(q.log, Ok)} : q \in Asked(a0, l)}

RECURSIVE LintMembers(_, _, _, _)

\* run_lint: for member in members { .. }
LintMembers(members, excl, onl, l) ==
  IF members = <<>> THEN {R(l, Ok)}
  ELSE
    LET name == Head(members)
        l1 == Append(l, Ev("group", "Lint", name, ""))
    IN IF LintSkip(name, excl, onl)
         THEN LintMembers(Tail(members), excl, onl, Append(l1, Ev("skip", "", name, "")))
         ELSE UNION {
           IF s.out = "nolaunch" THEN {R(s.log, Err("Failed to execute cargo clippy", ""))}
           ELSE IF s.out = "nonzero"
             THEN {R(s.log, Err("Lint fix execution failed for", name))}
           ELSE LintMembers(Tail(members), excl, onl,
                            Append(s.log, Ev("endgroup", "", "", ""))) :
             s \in Status("cargo clippy", name, l1)}

RECURSIVE run_lint(_, _, _, _, _)
RECURSIVE LintEach(_, _, _, _, _)

\* .try_for_each(|t| run_lint(&t, excluded, only, answer))
LintEach(targets, excl, onl, a, l) ==
  IF targets = <<>> THEN {R(l, Ok)}
  ELSE UNION {IF r.res.ok THEN LintEach(Tail(targets), excl, onl, a, r.log) ELSE {r} :
                r \in run_lint(Head(targets), excl, onl, a, l)}

\* run_lint
run_lint(t, excl, onl, a0, l0) ==
  LET l == Append(l0, Ev("call", "run_lint", t, a0)) IN
  IF t \in {"Crates", "Examples"}
    THEN LET kind == IF t = "Crates" THEN "Crate" ELSE "Example"
             members == get_workspace_members(kind)
             l1 == Append(l, Ev("members", "", kind, ""))
         IN UNION {IF unwrap(q.answer) THEN LintMembers(members, excl, onl, q.log)
                   ELSE {R(q.log, Ok)} : q \in Asked(a0, l1)}
    ELSE UNION {IF unwrap(q.answer) THEN LintEach(LintTargets, excl, onl, q.answer, q.log)
                ELSE {R(q.log, Ok)} : q \in Asked(a0, l)}

\* run_typos, the body run once the answer is positive
TyposTool(l) ==
  UNION {
    IF ~i.res.ok THEN {i}
    ELSE {IF s.out = "nolaunch" THEN R(s.log, Err("Failed to execute typos", ""))
          ELSE IF s.out = "nonzero"
            THEN R(s.log, Err("Some typos have been found and cannot be fixed.", ""))
          ELSE R(Append(s.log, Ev("endgroup", "", "", "")), Ok) :
            s \in Status("typos --write-changes", "",
                         Append(i.log, Ev("group", "Typos: Crates and Examples", "", "")))} :
      i \in ensure_cargo_crate_is_installed("typos-cli", l)}

RECURSIVE run_typos(_, _, _)
RECURSIVE TyposEach(_, _, _)

\* .try_for_each(|p| run_typos(&p, answer))
TyposEach(targets, a, l) ==
  IF targets = <<>> THEN {R(l, Ok)}
  ELSE UNION {IF r.res.ok THEN TyposEach(Tail(targets), a, r.log) ELSE {r} :
                r \in run_typos(Head(targets), a, l)}

\* run_typos
run_typos(t, a0, l0) ==
  LET l == Append(l0, Ev("call", "run_typos", t, a0)) IN
  IF t \in {"Crates", "Examples"}
    THEN UNION {IF unwrap(q.answer) THEN TyposTool(q.log) ELSE {R(q.log, Ok)} :
                  q \in Asked(a0, l)}
    ELSE UNION {TyposEach(TyposTargets, q.answer, q.log) : q \in Asked(a0, l)}

RECURSIVE check_handle_command(_, _, _, _, _, _)
RECURSIVE CheckEach(_, _, _, _, _, _)

\* CheckEach with for_each in place of try_for_each: a failed sub-check does
\* not stop the later ones.
CheckEachForEach(cmds, t, excl, onl, a, l) ==
  IF cmds = <<>> THEN {R(l, Ok)}
  ELSE UNION {CheckEach(Tail(cmds), t, excl, onl, a, r.log) :
                r \in check_handle_command(Head(cmds), t, excl, onl, a, l)}

\* .try_for_each(|c| handle_command(CheckCmdArgs { command: c, .. }, Some(answer)))
CheckEach(cmds, t, excl, onl, a, l) ==
  IF cmds = <<>> THEN {R(l, Ok)}
  ELSE UNION {IF r.res.ok THEN CheckEach(Tail(cmds), t, excl, onl, a, r.log) ELSE {r} :
                r \in check_handle_command(Head(cmds), t, excl, onl, a, l)}

\* check::handle_command
check_handle_command(c, t, excl, onl, a0, l0) ==
  LET l == Append(l0, Ev("call", "handle_command", c, a0)) IN
  CASE c = "Audit"  -> run_audit(t, a0, l)
    [] c = "Format" -> run_format(t, excl, onl, a0, l)
    [] c = "Lint"   -> run_lint(t, excl, onl, a0, l)
    [] c = "Typos"  -> run_typos(t, a0, l)
    [] c = "All"    -> UNION {CheckEach(SubChecks, t, excl, onl, Some(p.val), p.log) :
                                p \in ask_once(l)}

(***************************************************************************)
(* dependencies.rs                                                         *)
(***************************************************************************)
\* DependenciesSubCommand::iter().filter(|c| *c != DependenciesSubCommand::All)
SubDependencies == SelectSeq(DependenciesSubCommandIter, LAMBDA c : c # "All")

\* run_cargo_deny
run_cargo_deny(l0) ==
  LET l == Append(l0, Ev("call", "run_cargo_deny", "", "")) IN
  UNION {
    IF ~i.res.ok THEN {i}
    ELSE {IF ~p.res.ok THEN p ELSE R(Append(p.log, Ev("endgroup", "", "", "")), Ok) :
            p \in run_process("cargo deny check",
                             "Some dependencies don't meet the requirements!",
                             Append(i.log, Ev("group", "Cargo: run deny checks", "", "")))} :
      i \in ensure_cargo_crate_is_installed("cargo-deny", l)}

\* run_cargo_udeps returning the nightly message as an Err on a toolchain
\* that is not nightly.
run_cargo_udeps_strict(isNightly, l0) ==
  LET l == Append(l0, Ev("call", "run_cargo_udeps", "", "")) IN
  IF isNightly
    THEN UNION {
      IF ~i.res.ok THEN {i}
      ELSE {IF ~p.res.ok THEN p ELSE R(Append(p.log, Ev("endgroup", "", "", "")), Ok) :
              p \in run_process("cargo udeps", "Unused dependencies found!",
                      Append(i.log, Ev("group", "Cargo: run unused dependencies checks", "", "")))} :
        i \in ensure_cargo_crate_is_installed("cargo-udeps", l)}
    ELSE {R(Append(l, Ev("error", "CARGO_NIGHTLY_MSG", "", "")), Err("CARGO_NIGHTLY_MSG", ""))}

\* run_cargo_udeps
run_cargo_udeps(isNightly, l0) ==
  LET l == Append(l0, Ev("call", "run_cargo_udeps", "", "")) IN
  IF isNightly
    THEN UNION {
      IF ~i.res.ok THEN {i}
      ELSE {IF ~p.res.ok THEN p ELSE R(Append(p.log, Ev("endgroup", "", "", "")), Ok) :
              p \in run_process("cargo udeps", "Unused dependencies found!",
                      Append(i.log, Ev("group", "Cargo: run unused dependencies checks", "", "")))} :
        i \in ensure_cargo_crate_is_installed("cargo-udeps", l)}
    ELSE {R(Append(l, Ev("error", "CARGO_NIGHTLY_MSG", "", "")), Ok)}

RECURSIVE dependencies_handle_command(_, _, _)
RECURSIVE DependenciesEach(_, _, _)

\* DependenciesEach with for_each in place of try_for_each.
DependenciesEachForEach(cmds, isNightly, l) ==
  IF cmds = <<>> THEN {R(l, Ok)}
  ELSE UNION {DependenciesEach(Tail(cmds), isNightly, r.log) :
                r \in dependencies_handle_command(Head(cmds), isNightly, l)}

\* .try_for_each(|c| handle_command(DependenciesCmdArgs { command: Some(c) }))
DependenciesEach(cmds, isNightly, l) ==
  IF cmds = <<>> THEN {R(l, Ok)}
  ELSE UNION {IF r.res.ok THEN DependenciesEach(Tail(cmds), isNightly, r.log) ELSE {r} :
                r \in dependencies_handle_command(Head(cmds), isNightly, l)}

\* dependencies::handle_command
dependencies_handle_command(c, isNightly, l0) ==
  LET l == Append(l0, Ev("call", "handle_command", c, "")) IN
  CASE c = "Deny"   -> run_cargo_deny(l)
    [] c = "Unused" -> run_cargo_udeps(isNightly, l)
    [] c = "All"    -> DependenciesEach(SubDependencies, isNightly, l)

(***************************************************************************)
(* The state machine: one run of the command line                          *)
(***************************************************************************)
\* The workspaces considered: nc crates then ne examples, nc + ne <= MaxMembers.
Workspaces ==
  {<<SubSeq(MemberNames, 1, nc), SubSeq(MemberNames, nc + 1, nc + ne)>> :
     <<nc, ne>> \in {p \in (0..MaxMembers) \X (0..MaxMembers) :
                       p[1] + p[2] <= MaxMembers /\ p[1] + p[2] <= Len(MemberNames)}}

InitCheck ==
  /\ family = "check"
  /\ command \in SeqToSet(CheckCommandIter)
  /\ target \in SeqToSet(TargetIter)
  /\ excluded \in SUBSET Names
  /\ only \in SUBSET Names
  /\ answer \in Answers
  /\ \E w \in Workspaces : crates = w[1] /\ examples = w[2]
  /\ nightly = FALSE

InitDependencies ==
  /\ family = "dependencies"
  /\ command \in SeqToSet(DependenciesSubCommandIter)
  /\ target = "All"
  /\ excluded = {}
  /\ only = {}
  /\ answer = "None"
  /\ crates = <<>>
  /\ examples = <<>>
  /\ nightly \in BOOLEAN

Init ==
  /\ InitCheck \/ InitDependencies
  /\ pc = "start"
  /\ log = <<>>
  /\ res = Ok

\* `xtask check ...`: check::handle_command runs and returns.
Check ==
  /\ pc = "start"
  /\ family = "check"
  /\ \E r \in check_handle_command(command, target, excluded, only, answer, log) :
       /\ log' = r.log
       /\ res' = r.res
  /\ pc' = "done"
  /\ UNCHANGED <<family, command, target, excluded, only, answer, crates, examples, nightly>>

\* `xtask dependencies ...`: dependencies::handle_command runs and returns.
Dependencies ==
  /\ pc = "start"
  /\ family = "dependencies"
  /\ \E r \in dependencies_handle_command(command, nightly, log) :
       /\ log' = r.log
       /\ res' = r.res
  /\ pc' = "done"
  /\ UNCHANGED <<family, command, target, excluded, only, answer, crates, examples, nightly>>

Next == Check \/ Dependencies

Spec == Init /\ [][Next]_vars

(***************************************************************************)
(* Reading a run's log                                                     *)
(***************************************************************************)
Done == pc = "done"

\* An installation or an external process.
IsTool(e) == e.ev \in {"install", "run"}

\* An installation that failed, or a process that exited non-zero or could
\* not be launched.
Failed(e) == (e.ev = "install" /\ e.out = "fail") \/ (e.ev = "run" /\ e.out # "ok")

NoFailure == \A i \in DOMAIN log : ~Failed(log[i])

Prompts == {i \in DOMAIN log : log[i].ev = "prompt"}

\* The answer in effect: the user's reply when the run prompted, the answer
\* the command was entered with otherwise.
Confirmed ==
  IF Prompts # {} THEN \A i \in Prompts : log[i].out = "yes" ELSE answer = "Some(true)"

Declined ==
  IF Prompts # {} THEN \A i \in Prompts : log[i].out = "no" ELSE answer = "Some(false)"

\* The external processes of a log, in order, with their outcomes.
Runs(l) == SelectSeq(l, LAMBDA e : e.ev = "run")

\* The installations and external processes of a log, in order.
Tools(l) == SelectSeq(l, IsTool)

\* The handle_command entries of the run, in order.
HandleCalls == SelectSeq(log, LAMBDA e : e.ev = "call" /\ e.tool = "handle_command")

\* How often `cmdline` was run for member m.
RunCount(cmdline, m) ==
  Cardinality({i \in DOMAIN log :
                 log[i].ev = "run" /\ log[i].tool = cmdline /\ log[i].member = m})

\* The members `cmdline` was run for.
Invoked(cmdline) ==
  {log[i].member : i \in {j \in DOMAIN log : log[j].ev = "run" /\ log[j].tool = cmdline}}

\* The per-member command lines a check command runs.
MemberTools ==
  CASE command = "Format" -> {"cargo fmt"}
    [] command = "Lint" -> {"cargo clippy"}
    [] command = "All" -> {"cargo fmt", "cargo clippy"}
    [] OTHER -> {}

\* The members the target selects.
Selected ==
  CASE target = "Crates" -> SeqToSet(crates)
    [] target = "Examples" -> SeqToSet(examples)
    [] OTHER -> SeqToSet(crates) \cup SeqToSet(examples)

\* The sub-check an installation or external process belongs to.
CheckOf(e) ==
  CASE e.tool \in {"cargo-audit", "cargo audit -q --color always fix"} -> "Audit"
    [] e.tool = "cargo fmt" -> "Format"
    [] e.tool = "cargo clippy" -> "Lint"
    [] e.tool \in {"typos-cli", "typos --write-changes"} -> "Typos"

FixedOrder == <<"Audit", "Format", "Lint", "Typos">>

Pos(c) == CHOOSE i \in DOMAIN FixedOrder : FixedOrder[i] = c

(***************************************************************************)
(* C1                                                                      *)
(***************************************************************************)
\* C1: `check all` with a confirmed prompt enters the sub-checks in the order
\* Audit, Format, Lint, Typos; its installations and processes follow that
\* order; once one of them fails nothing more is installed or run and the
\* command returns Err; when none fails all four sub-checks run and it returns Ok.
C1_CheckAllShortCircuits ==
  (Done /\ family = "check" /\ command = "All" /\ Confirmed) =>
    LET nested == Tail(HandleCalls) IN
    /\ Len(nested) <= Len(FixedOrder)
    /\ \A k \in DOMAIN nested : nested[k].member = FixedOrder[k]
    /\ \A i, j \in DOMAIN log :
         (i < j /\ IsTool(log[i]) /\ IsTool(log[j])) =>
           Pos(CheckOf(log[i])) <= Pos(CheckOf(log[j]))
    /\ \A i \in DOMAIN log :
         Failed(log[i]) => /\ \A j \in DOMAIN log : j > i => ~IsTool(log[j])
                           /\ ~res.ok
    /\ NoFailure => (Len(nested) = Len(FixedOrder) /\ res.ok)

\* A `check all` run in which the audit succeeded and cargo fmt then exited
\* non-zero on a member.
C1_Witness ==
  /\ Done /\ family = "check" /\ command = "All" /\ Confirmed
  /\ ~res.ok
  /\ \E i, j \in DOMAIN log :
       /\ i < j
       /\ log[i].ev = "run" /\ CheckOf(log[i]) = "Audit" /\ log[i].out = "ok"
       /\ log[j].ev = "run" /\ log[j].tool = "cargo fmt" /\ log[j].out = "nonzero"

(***************************************************************************)
(* C2                                                                      *)
(***************************************************************************)
\* A member passes the filters.
Eligible(m) == m \notin excluded /\ (only = {} \/ m \in only)

\* C2 as stated: the members cargo fmt / cargo clippy is run for are disjoint
\* from exclude and, when only is non-empty, within only; and when no
\* invocation fails every selected member that passes the filters is run
\* exactly once.
C2_AsStated ==
  (Done /\ family = "check") =>
    \A tool \in MemberTools :
      /\ Invoked(tool) \cap excluded = {}
      /\ only # {} => Invoked(tool) \subseteq only
      /\ NoFailure => \A m \in Selected : Eligible(m) => RunCount(tool, m) = 1

\* C2 amended: the same, the converse holding when the prompt was confirmed
\* (with a declined prompt no member is run); no member is ever run twice or
\* outside the target's members.
C2_FiltersSelectMembers ==
  (Done /\ family = "check") =>
    \A tool \in MemberTools :
      /\ Invoked(tool) \cap excluded = {}
      /\ only # {} => Invoked(tool) \subseteq only
      /\ Invoked(tool) \subseteq Selected
      /\ \A m \in Selected : RunCount(tool, m) <= 1
      /\ (Confirmed /\ NoFailure) =>
           \A m \in Selected : Eligible(m) => RunCount(tool, m) = 1
      /\ Declined => Invoked(tool) = {}

\* A confirmed lint run over two members with a non-empty only list: one
\* member is run, the other is skipped.
C2_Witness ==
  /\ Done /\ family = "check" /\ command = "Lint" /\ Confirmed /\ NoFailure
  /\ only # {} /\ excluded # {}
  /\ \E m, n \in Selected :
       /\ Eligible(m) /\ RunCount("cargo clippy", m) = 1
       /\ ~Eligible(n) /\ n \notin excluded /\ RunCount("cargo clippy", n) = 0

(***************************************************************************)
(* C3                                                                      *)
(***************************************************************************)
\* What a set of outcomes shows: the processes run and the result.
Seqs(rs) == {<<Runs(r.log), r.res>> : r \in rs}

\* The Crates outcomes followed, where the Crates part succeeded, by the
\* Examples outcomes.
Composed(cs, es) ==
  {<<Runs(c.log), c.res>> : c \in {x \in cs : ~x.res.ok}}
    \cup {<<Runs(c.log) \o Runs(e.log), e.res>> : c \in {x \in cs : x.res.ok}, e \in es}

\* run_format / run_lint entered alone with a positive answer.
Alone(t) ==
  IF command = "Format" THEN run_format(t, excluded, only, "Some(true)", <<>>)
  ELSE run_lint(t, excluded, only, "Some(true)", <<>>)

\* C3: with a confirmed prompt, the processes run_format / run_lint run for
\* Target::All, and the result, are those of Target::Crates followed, when the
\* Crates part succeeded, by those of Target::Examples; and every such
\* combination is an outcome of Target::All.
C3_AllIsCratesThenExamples ==
  (Done /\ family = "check" /\ command \in {"Format", "Lint"} /\ target = "All" /\ Confirmed) =>
    /\ <<Runs(log), res>> \in Composed(Alone("Crates"), Alone("Examples"))
    /\ Seqs(Alone("All")) = Composed(Alone("Crates"), Alone("Examples"))

\* A confirmed format run on all targets that ran a crate and then an example.
C3_Witness ==
  /\ Done /\ family = "check" /\ command = "Format" /\ target = "All" /\ Confirmed
  /\ \E i, j \in DOMAIN log :
       /\ i < j
       /\ log[i].ev = "run" /\ log[i].member \in SeqToSet(crates)
       /\ log[j].ev = "run" /\ log[j].member \in SeqToSet(examples)

(***************************************************************************)
(* C4                                                                      *)
(***************************************************************************)
\* The messages of the errors run_format / run_lint return for a command line.
StepMsgs(tool) ==
  IF tool = "cargo fmt"
    THEN {"Failed to execute cargo fmt", "Format check execution failed for"}
    ELSE {"Failed to execute cargo clippy", "Lint fix execution failed for"}

\* C4: after a member's cargo fmt / cargo clippy exits non-zero or cannot be
\* launched no process is run (no later member, no example after a crate),
\* and the run returns the Err of that step, naming the member on a non-zero
\* exit.
C4_MemberFailureAborts ==
  (Done /\ family = "check") =>
    \A i \in DOMAIN log :
      (log[i].ev = "run" /\ log[i].tool \in {"cargo fmt", "cargo clippy"} /\ log[i].out # "ok") =>
        /\ \A j \in DOMAIN log : j > i => log[j].ev # "run"
        /\ ~res.ok
        /\ res.msg \in StepMsgs(log[i].tool)
        /\ log[i].out = "nonzero" => res.arg = log[i].member

\* A format run on all targets whose first crate fails while an example that
\* passes the filters is left unrun.
C4_Witness ==
  /\ Done /\ family = "check" /\ command = "Format" /\ target = "All"
  /\ crates # <<>> /\ examples # <<>>
  /\ Eligible(examples[1])
  /\ RunCount("cargo fmt", examples[1]) = 0
  /\ \E i \in DOMAIN log :
       log[i].ev = "run" /\ log[i].member = crates[1] /\ log[i].out = "nonzero"
  /\ res = Err("Format check execution failed for", crates[1])

(***************************************************************************)
(* C5                                                                      *)
(***************************************************************************)
\* The effects of the deny step and of the unused step.
IsDeny(e) ==
  \/ e.tool \in {"run_cargo_deny", "cargo-deny", "cargo deny check", "Cargo: run deny checks"}
  \/ (e.ev = "call" /\ e.member = "Deny")

IsUnused(e) ==
  \/ e.tool \in {"run_cargo_udeps", "cargo-udeps", "cargo udeps", "CARGO_NIGHTLY_MSG",
                 "Cargo: run unused dependencies checks"}
  \/ (e.ev = "call" /\ e.member = "Unused")

\* C5: `dependencies all` enters All once, then Deny, then Unused; everything
\* the deny step does precedes everything the unused step does; and when the
\* deny step fails the unused step is not started and the command returns Err.
C5_DependenciesAllSequential ==
  (Done /\ family = "dependencies" /\ command = "All") =>
    LET nested == Tail(HandleCalls)
        order == <<"Deny", "Unused">>
        denyFailed == \E i \in DOMAIN log : IsDeny(log[i]) /\ Failed(log[i])
    IN /\ HandleCalls[1].member = "All"
       /\ Len(nested) <= Len(order)
       /\ \A k \in DOMAIN nested : nested[k].member = order[k]
       /\ \A i, j \in DOMAIN log : (IsDeny(log[i]) /\ IsUnused(log[j])) => i < j
       /\ denyFailed => /\ \A j \in DOMAIN log : ~IsUnused(log[j])
                        /\ ~res.ok
       /\ ~denyFailed => Len(nested) = Len(order)

\* A `dependencies all` run whose cargo deny check exited non-zero.
C5_Witness ==
  /\ Done /\ family = "dependencies" /\ command = "All"
  /\ \E i \in DOMAIN log :
       log[i].ev = "run" /\ log[i].tool = "cargo deny check" /\ log[i].out = "nonzero"
  /\ ~res.ok

(***************************************************************************)
(* C6                                                                      *)
(***************************************************************************)
\* The executable and the crate of a dependencies subcommand.
Exe == IF command = "Deny" THEN "cargo deny check" ELSE "cargo udeps"

ExeCrate == IF command = "Deny" THEN "cargo-deny" ELSE "cargo-udeps"

ExeRuns == {i \in DOMAIN log : log[i].ev = "run" /\ log[i].tool = Exe}

\* C6 as stated: `dependencies deny` / `dependencies unused` runs its
\* executable on every run, and returns Ok exactly when the executable was run
\* and exited zero.
C6_AsStated ==
  (Done /\ family = "dependencies" /\ command \in {"Deny", "Unused"}) =>
    /\ ExeRuns # {}
    /\ res.ok <=> \E i \in ExeRuns : log[i].out = "ok"

\* C6 amended: `dependencies unused` on a toolchain that is not nightly
\* installs and runs nothing, logs the nightly message as an error and returns
\* Ok.  Otherwise the subcommand runs its executable, once, exactly when
\* ensure_cargo_crate_is_installed succeeded, and returns Ok exactly when the
\* executable was run and exited zero.
C6_DependenciesSurfaceStatus ==
  (Done /\ family = "dependencies" /\ command \in {"Deny", "Unused"}) =>
    LET gated == command = "Unused" /\ ~nightly
        installed == \E i \in DOMAIN log :
                       log[i].ev = "install" /\ log[i].tool = ExeCrate /\ log[i].out = "ok"
    IN /\ Cardinality(ExeRuns) <= 1
       /\ gated => /\ \A i \in DOMAIN log : ~IsTool(log[i])
                   /\ \E i \in DOMAIN log : log[i].ev = "error"
                   /\ res.ok
       /\ ~gated => /\ ExeRuns # {} <=> installed
                    /\ res.ok <=> \E i \in ExeRuns : log[i].out = "ok"

\* `dependencies unused` on a toolchain that is not nightly: Ok, nothing run.
C6_Witness ==
  /\ Done /\ family = "dependencies" /\ command = "Unused" /\ ~nightly
  /\ res.ok
  /\ ExeRuns = {}

(***************************************************************************)
(* C7                                                                      *)
(***************************************************************************)
\* C7: a check command prompts at most once, exactly once when entered with
\* no answer; the prompt precedes every installation and process; and every
\* nested call receives the answer in effect: the reply once the prompt
\* happened, the answer the command was entered with before.
C7_PromptOnce ==
  (Done /\ family = "check") =>
    /\ Cardinality(Prompts) <= 1
    /\ answer = "None" => Cardinality(Prompts) = 1
    /\ \A i \in Prompts : \A j \in DOMAIN log : IsTool(log[j]) => i < j
    /\ \A k \in DOMAIN log :
         (log[k].ev = "call" /\ k > 1) =>
           LET before == {i \in Prompts : i < k} IN
           IF before = {} THEN log[k].out = answer
           ELSE \A i \in before : log[k].out = Some(log[i].out = "yes")

\* `check all` on all targets entered with no answer: one prompt, answered
\* yes, then the four sub-checks down to an external process per member.
C7_Witness ==
  /\ Done /\ family = "check" /\ command = "All" /\ target = "All" /\ answer = "None"
  /\ Cardinality(Prompts) = 1 /\ Confirmed
  /\ Len(HandleCalls) = Len(CheckCommandIter)
  /\ \E i \in DOMAIN log : log[i].ev = "call" /\ log[i].tool = "run_lint" /\ log[i].member = "Examples"
  /\ \E i \in DOMAIN log : log[i].ev = "run" /\ log[i].tool = "cargo clippy"

(***************************************************************************)
(* C8                                                                      *)
(***************************************************************************)
\* C8: when the answer in effect is negative, a check command installs and
\* runs nothing and returns Ok.
C8_DeclinedRunsNothing ==
  (Done /\ family = "check" /\ Declined) =>
    /\ \A i \in DOMAIN log : ~IsTool(log[i])
    /\ res.ok

\* `check all` declined at its prompt: all four sub-checks are entered and
\* return without running anything.
C8_Witness ==
  /\ Done /\ family = "check" /\ command = "All" /\ Declined /\ Prompts # {}
  /\ Len(HandleCalls) = Len(CheckCommandIter)
  /\ res.ok

(***************************************************************************)
(* C9                                                                      *)
(***************************************************************************)
\* The command line and the crate of the workspace-wide checks.
WideTool == IF command = "Audit" THEN "cargo audit -q --color always fix" ELSE "typos --write-changes"

WideCrate == IF command = "Audit" THEN "cargo-audit" ELSE "typos-cli"

WideRuns == {i \in DOMAIN log : log[i].ev = "run" /\ log[i].tool = WideTool}

\* run_audit / run_typos entered alone with a positive answer.
AloneWide(t) ==
  IF command = "Audit" THEN run_audit(t, "Some(true)", <<>>) ELSE run_typos(t, "Some(true)", <<>>)

ToolSeqs(rs) == {<<Tools(r.log), r.res>> : r \in rs}

\* C9 as stated: with a confirmed prompt run_audit / run_typos on Target::All
\* runs the tool exactly once, does what Target::Crates alone does, and never
\* enters Target::Examples.
C9_AsStated ==
  (Done /\ family = "check" /\ command \in {"Audit", "Typos"} /\ target = "All" /\ Confirmed) =>
    /\ Cardinality(WideRuns) = 1
    /\ ToolSeqs(AloneWide("All")) = ToolSeqs(AloneWide("Crates"))
    /\ <<Tools(log), res>> \in ToolSeqs(AloneWide("Crates"))
    /\ \A i \in DOMAIN log : log[i].ev = "call" => log[i].member # "Examples"

\* C9 amended: the tool is run at most once, and exactly once when
\* ensure_cargo_crate_is_installed succeeded (when it failed the tool is not
\* run at all); the rest as stated.
C9_AllRunsWideToolOnce ==
  (Done /\ family = "check" /\ command \in {"Audit", "Typos"} /\ target = "All" /\ Confirmed) =>
    /\ Cardinality(WideRuns) <= 1
    /\ Cardinality(WideRuns) = 1 <=>
         \E i \in DOMAIN log :
           log[i].ev = "install" /\ log[i].tool = WideCrate /\ log[i].out = "ok"
    /\ ToolSeqs(AloneWide("All")) = ToolSeqs(AloneWide("Crates"))
    /\ <<Tools(log), res>> \in ToolSeqs(AloneWide("Crates"))
    /\ \A i \in DOMAIN log : log[i].ev = "call" => log[i].member # "Examples"

\* A confirmed audit on all targets that ran cargo audit once, successfully.
C9_Witness ==
  /\ Done /\ family = "check" /\ command = "Audit" /\ target = "All" /\ Confirmed
  /\ Cardinality(WideRuns) = 1
  /\ res.ok

(***************************************************************************)
(* C10                                                                     *)
(***************************************************************************)
Groups == {i \in DOMAIN log : log[i].ev = "group"}

EndGroups == {i \in DOMAIN log : log[i].ev = "endgroup"}

\* C10: in run_format / run_lint every group opened for a member is closed
\* before the next member's group is opened, and a run that returns Ok has
\* emitted as many endgroup markers as group markers.
C10_GroupsBracketed ==
  (Done /\ family = "check" /\ command \in {"Format", "Lint"}) =>
    /\ \A i, j \in Groups : i < j => \E k \in EndGroups : i < k /\ k < j
    /\ res.ok => Cardinality(Groups) = Cardinality(EndGroups)

====
